---- MODULE Spec2Model ----
(***************************************************************************)
(* A model of the data utilities of agricultura-colombia:                  *)
(*   src/utils/func_utils.py  DataGovAPI, DataManager                      *)
(*   src/utils/metrics.py     MetricsComputation.grouped_table             *)
(*                                                                         *)
(* A pandas DataFrame is a heap object [cols, rows]: cols is the sequence  *)
(* of column names, rows the sequence of rows, each row a function from    *)
(* the column names to cell values.  Python object identity (the `is`      *)
(* operator, in-place column assignment) is kept by addressing DataFrames  *)
(* through their index in the heap.                                        *)
(***************************************************************************)
EXTENDS Integers, Sequences, FiniteSets, TLC

VARIABLES
    heap,            \* the DataFrame objects alive, addressed by index
    dm_dataframe,    \* DataManager.dataframe: a heap index, or None
    service,         \* how the geocoding service answers each query
    pc,              \* position of the caller inside geocode_dataframe
    dataframe,       \* geocode_dataframe: local `dataframe`
    location_list,   \* geocode_dataframe: local `location_list`
    out_coordinates, \* geocode_dataframe: local `out_coordinates`
    tries,           \* RateLimiter: failed attempts of the call in progress
    calls,           \* queries sent to the service by the run in progress
    ret,             \* outcome of the last call of an operation
    printed,         \* what the last call of an operation printed
    runs,            \* completed geocode_dataframe runs, oldest first
    api_dataframe,   \* DataGovAPI.dataframe
    requests,        \* number of HTTP GETs issued by DataGovAPI.load_data
    fix_in,          \* DataManager.fix_string_case: the table as given
    fix_out,         \* DataManager.fix_string_case: the table as returned
    loads,           \* the load_data calls made so far, oldest first
    data,            \* MetricsComputation.data
    top_records,     \* MetricsComputation.grouped_table: the returned table
    met_call         \* MetricsComputation.grouped_table: the arguments given

geoVars  == <<heap, dm_dataframe, service, pc, dataframe, location_list,
              out_coordinates, tries, calls, runs>>
outVars  == <<ret, printed>>
loadVars == <<api_dataframe, requests, loads>>
fixVars  == <<fix_in, fix_out>>
metVars  == <<data, top_records, met_call>>
vars     == <<geoVars, outVars, loadVars, fixVars, metVars>>

-----------------------------------------------------------------------------
(* Bounds of the model.                                                    *)
MaxRows  == 2    \* rows of a table handed to geocode_dataframe
MaxRuns  == 2    \* geocode_dataframe calls made on one DataManager
MaxLoads == 3    \* load_data calls made on one DataGovAPI
MaxLen   == 2    \* characters of a text value given to fix_string_case
MaxFixRows == 2  \* rows of a table given to fix_string_case
MaxMetRows == 3  \* rows of the table of a MetricsComputation
MaxTop   == 2    \* largest top_n given to grouped_table

-----------------------------------------------------------------------------
(* Cell values.  Text is a sequence of characters or tokens; None and NaN  *)
(* are the one null value; numbers carry an integer.                       *)
Str(s)   == [kind |-> "str",  s |-> s,    n |-> 0]
Num(n)   == [kind |-> "num",  s |-> <<>>, n |-> n]
None     == [kind |-> "null", s |-> <<>>, n |-> 0]
IsStr(v) == v.kind = "str"
IsNull(v) == v.kind = "null"

\* pandas object-dtype `+`: element-wise string concatenation, a null operand
\* gives a null result.
Concat(a, b) == IF IsStr(a) /\ IsStr(b) THEN Str(a.s \o b.s) ELSE None

Range(f) == {f[i] : i \in DOMAIN f}

HasColumn(t, c) == \E i \in DOMAIN t.cols : t.cols[i] = c

\* dataframe[c] = values (in place): an existing column keeps its position,
\* a new one is appended.
SetColumn(t, c, values) ==
    [cols |-> IF HasColumn(t, c) THEN t.cols ELSE Append(t.cols, c),
     rows |-> [i \in DOMAIN t.rows |->
                 [k \in (DOMAIN t.rows[i]) \cup {c} |->
                     IF k = c THEN values[i] ELSE t.rows[i][k]]]]

-----------------------------------------------------------------------------
(* Input tables of the geocoding runs.                                     *)
Municipios    == {Str(<<"Cali">>), Str(<<"Buga">>)}
Departamentos == {Str(<<"Valle">>)}

RowsOver(colset) ==
    IF colset = {"municipio", "departamento"}
    THEN {[c \in colset |-> IF c = "municipio" THEN m ELSE d] :
              m \in Municipios, d \in Departamentos}
    ELSE IF colset = {"municipio"}
    THEN {[c \in colset |-> m] : m \in Municipios}
    ELSE {[c \in colset |-> d] : d \in Departamentos}

SeqsUpTo(S, n) == UNION {[1..k -> S] : k \in 0..n}

InputTables ==
    {[cols |-> <<"municipio", "departamento">>, rows |-> r] :
         r \in SeqsUpTo(RowsOver({"municipio", "departamento"}), MaxRows)}
    \cup {[cols |-> <<"municipio">>, rows |-> r] :
         r \in SeqsUpTo(RowsOver({"municipio"}), MaxRows)}
    \cup {[cols |-> <<"departamento">>, rows |-> r] :
         r \in SeqsUpTo(RowsOver({"departamento"}), MaxRows)}

NoObj == 0    \* Python None where a DataFrame object is expected

\* Python None where a table value is expected (no DataFrame has a column
\* list like this one)
NoTable == [cols |-> <<"None">>, rows |-> <<>>]

-----------------------------------------------------------------------------
(* The geocoding service behind RateLimiter(Nominatim.geocode).            *)
\* dataframe['municipio'] + ", " + dataframe['departamento'] + ", Colombia"
LocationKey(row) ==
    Concat(Concat(Concat(row["municipio"], Str(<<", ">>)), row["departamento"]),
           Str(<<", Colombia">>))

Queries == {LocationKey(r) : r \in RowsOver({"municipio", "departamento"})}

\* What the service holds for a query it can resolve: a Location with a
\* latitude and a longitude, different for different places.
Location(q) ==
    IF q = Str(<<"Cali", ", ", "Valle", ", Colombia">>)
    THEN [found |-> TRUE, latitude |-> Num(3), longitude |-> Num(-76)]
    ELSE IF q = Str(<<"Buga", ", ", "Valle", ", Colombia">>)
    THEN [found |-> TRUE, latitude |-> Num(4), longitude |-> Num(-77)]
    ELSE [found |-> TRUE, latitude |-> Num(9), longitude |-> Num(-70)]

NoLocation == [found |-> FALSE, latitude |-> None, longitude |-> None]

\* How the service treats a query: resolved, no match, failing with a
\* GeocoderServiceError at every attempt, or failing at the first attempt
\* of a call only.
Profiles == {"hit", "miss", "down", "flaky"}

\* geopy RateLimiter defaults used by RateLimiter(..., min_delay_seconds=1)
max_retries == 2

Fails(q, n) == service[q] = "down" \/ (service[q] = "flaky" /\ n = 0)

Answer(q) == IF service[q] = "miss" THEN NoLocation ELSE Location(q)

-----------------------------------------------------------------------------
(* pandas helpers of geocode_dataframe.                                    *)
RECURSIVE UniqueFrom(_, _, _)
UniqueFrom(s, i, acc) ==
    IF i > Len(s) THEN acc
    ELSE UniqueFrom(s, i + 1,
                    IF s[i] \in Range(acc) THEN acc ELSE Append(acc, s[i]))

\* Unique without the deduplication
UniqueKeepsAll(s) == s

\* Series.unique(): the distinct values in order of first appearance
Unique(s) == UniqueFrom(s, 1, <<>>)

Column(t, c) == [i \in DOMAIN t.rows |-> t.rows[i][c]]

\* lines 147-157: one record per looked-up location; pd.DataFrame of an
\* empty list has no columns at all.
LocationDf(locs, coords) ==
    IF Len(locs) = 0 THEN [cols |-> <<>>, rows |-> <<>>]
    ELSE [cols |-> <<"location", "latitude", "longitude">>,
          rows |-> [i \in DOMAIN locs |->
                      [c \in {"location", "latitude", "longitude"} |->
                          IF c = "location" THEN locs[i]
                          ELSE IF c = "latitude"
                          THEN (IF coords[i].found THEN coords[i].latitude ELSE None)
                          ELSE (IF coords[i].found THEN coords[i].longitude ELSE None)]]]

\* DataFrame.merge suffixes ('_x', '_y') for column names present on both sides
SuffixX(c) == IF c = "location" THEN "location_x"
              ELSE IF c = "latitude" THEN "latitude_x"
              ELSE IF c = "longitude" THEN "longitude_x" ELSE c
SuffixY(c) == IF c = "location" THEN "location_y"
              ELSE IF c = "latitude" THEN "latitude_y"
              ELSE IF c = "longitude" THEN "longitude_y" ELSE c

LeftName(c, right)  == IF HasColumn(right, c) THEN SuffixX(c) ELSE c
RightName(c, left)  == IF HasColumn(left, c) THEN SuffixY(c) ELSE c

\* one row of the result: the left row's cells, then the right row's (nulls
\* when there is no right row)
Joined(left, right, lrow, rrow, matched) ==
    LET ln == {LeftName(c, right) : c \in Range(left.cols)}
        rn == {RightName(c, left) : c \in Range(right.cols)}
    IN [k \in ln \cup rn |->
          IF k \in ln
          THEN lrow[CHOOSE c \in Range(left.cols) : LeftName(c, right) = k]
          ELSE IF matched
          THEN rrow[CHOOSE c \in Range(right.cols) : RightName(c, left) = k]
          ELSE None]

RECURSIVE MatchesFrom(_, _, _, _, _, _)
MatchesFrom(left, right, lrow, left_on, right_on, j) ==
    IF j > Len(right.rows) THEN <<>>
    ELSE (IF right.rows[j][right_on] = lrow[left_on]
          THEN <<Joined(left, right, lrow, right.rows[j], TRUE)>>
          ELSE <<>>)
         \o MatchesFrom(left, right, lrow, left_on, right_on, j + 1)

RECURSIVE MergeFrom(_, _, _, _, _)
MergeFrom(left, right, left_on, right_on, i) ==
    IF i > Len(left.rows) THEN <<>>
    ELSE LET m == MatchesFrom(left, right, left.rows[i], left_on, right_on, 1)
         IN (IF Len(m) = 0
             THEN <<Joined(left, right, left.rows[i], left.rows[i], FALSE)>>
             ELSE m)
            \o MergeFrom(left, right, left_on, right_on, i + 1)

Reverse(s) == [i \in DOMAIN s |-> s[Len(s) + 1 - i]]

\* Merge giving the rows in the opposite order
MergeReversed(left, right, left_on, right_on) ==
    [cols |-> [i \in DOMAIN left.cols |-> LeftName(left.cols[i], right)]
              \o [i \in DOMAIN right.cols |-> RightName(right.cols[i], left)],
     rows |-> Reverse(MergeFrom(left, right, left_on, right_on, 1))]

\* left.merge(right, left_on=..., right_on=..., how='left'): every left row
\* in order, once per matching right row, or once with nulls; null keys match
\* null keys.
Merge(left, right, left_on, right_on) ==
    [cols |-> [i \in DOMAIN left.cols |-> LeftName(left.cols[i], right)]
              \o [i \in DOMAIN right.cols |-> RightName(right.cols[i], left)],
     rows |-> MergeFrom(left, right, left_on, right_on, 1)]

-----------------------------------------------------------------------------
(* DataManager.geocode_dataframe, one action per step of the call.  The    *)
(* program is single-threaded: nothing else runs while a call is inside    *)
(* its lookup loop (pc # "idle").                                          *)

Returned(obj) == [kind |-> "return", obj |-> obj, exc |-> ""]
Raised(exc)   == [kind |-> "raise", obj |-> NoObj, exc |-> exc]
NoCall        == [kind |-> "none", obj |-> NoObj, exc |-> ""]

MissingColumnsNotice ==
    "DataFrame does not contain required columns: municipio and departamento"

\* line 128-129: the table the call works on
Target(arg) == IF arg = NoObj THEN dm_dataframe ELSE arg

\* line 132
HasRequiredColumns(t) == HasColumn(t, "municipio") /\ HasColumn(t, "departamento")

RunRecord(arg, input, before, keys, sent, outcome) ==
    [arg |-> arg, managed |-> dm_dataframe, input |-> input, before |-> before,
     keys |-> keys, calls |-> sent, outcome |-> outcome]

\* DataManager.__init__ (line 61) leaves self.dataframe = None; the class has
\* no setter, the caller stores the table in the attribute (here: once, at
\* any time between two calls).
AssignDataframe(obj) ==
    /\ pc = "idle"
    /\ obj \in DOMAIN heap
    /\ dm_dataframe = NoObj
    /\ dm_dataframe' = obj
    /\ ret' = NoCall
    /\ printed' = <<>>
    /\ UNCHANGED <<heap, service, pc, dataframe, location_list, out_coordinates,
                   tries, calls, runs>>
    /\ UNCHANGED <<loadVars, fixVars, metVars>>

\* line 132 on None: no table given and none managed
GeocodeNoTable(arg) ==
    /\ pc = "idle"
    /\ Len(runs) < MaxRuns
    /\ Target(arg) = NoObj
    /\ ret' = Raised("AttributeError")
    /\ printed' = <<>>
    /\ runs' = Append(runs, RunRecord(arg, NoObj, [cols |-> <<>>, rows |-> <<>>],
                                      <<>>, <<>>, Raised("AttributeError")))
    /\ UNCHANGED <<heap, dm_dataframe, service, pc, dataframe, location_list,
                   out_coordinates, tries, calls>>
    /\ UNCHANGED <<loadVars, fixVars, metVars>>

\* GeocodeMissingColumns returning a copy of the table instead of the table
GeocodeMissingColumnsCopy(arg) ==
    /\ pc = "idle"
    /\ Len(runs) < MaxRuns
    /\ Target(arg) # NoObj
    /\ ~HasRequiredColumns(heap[Target(arg)])
    /\ printed' = <<MissingColumnsNotice>>
    /\ heap' = Append(heap, heap[Target(arg)])
    /\ ret' = Returned(Len(heap) + 1)
    /\ runs' = Append(runs, RunRecord(arg, Target(arg), heap[Target(arg)],
                                      <<>>, <<>>, Returned(Len(heap) + 1)))
    /\ UNCHANGED <<dm_dataframe, service, pc, dataframe, location_list,
                   out_coordinates, tries, calls>>
    /\ UNCHANGED <<loadVars, fixVars, metVars>>

\* lines 132, 167-170: a required column is missing
GeocodeMissingColumns(arg) ==
    /\ pc = "idle"
    /\ Len(runs) < MaxRuns
    /\ Target(arg) # NoObj
    /\ ~HasRequiredColumns(heap[Target(arg)])
    /\ printed' = <<MissingColumnsNotice>>
    /\ ret' = Returned(Target(arg))
    /\ runs' = Append(runs, RunRecord(arg, Target(arg), heap[Target(arg)],
                                      <<>>, <<>>, Returned(Target(arg))))
    /\ UNCHANGED <<heap, dm_dataframe, service, pc, dataframe, location_list,
                   out_coordinates, tries, calls>>
    /\ UNCHANGED <<loadVars, fixVars, metVars>>

\* lines 128-140: the key column is written into the given object, the
\* distinct keys are collected
GeocodeStart(arg) ==
    /\ pc = "idle"
    /\ Len(runs) < MaxRuns
    /\ Target(arg) # NoObj
    /\ HasRequiredColumns(heap[Target(arg)])
    /\ LET df   == Target(arg)
           t    == heap[df]
           keys == [i \in DOMAIN t.rows |-> LocationKey(t.rows[i])]
           t2   == SetColumn(t, "geolocalizacion", keys)
       IN /\ heap' = [heap EXCEPT ![df] = t2]
          /\ dataframe' = df
          /\ location_list' = Unique(Column(t2, "geolocalizacion"))
          /\ runs' = Append(runs, RunRecord(arg, df, t, <<>>, <<>>, NoCall))
    /\ out_coordinates' = <<>>
    /\ tries' = 0
    /\ calls' = <<>>
    /\ pc' = "geocode"
    /\ ret' = NoCall
    /\ printed' = <<>>
    /\ UNCHANGED <<dm_dataframe, service>>
    /\ UNCHANGED <<loadVars, fixVars, metVars>>

\* the location the loop of lines 143-145 is at
Current == location_list[Len(out_coordinates) + 1]

\* RateLimiter.__call__: wait for the request slot (min_delay_seconds)
AcquireSlot ==
    /\ pc = "geocode"
    /\ Len(out_coordinates) < Len(location_list)
    /\ pc' = "slot"
    /\ UNCHANGED <<heap, dm_dataframe, service, dataframe, location_list,
                   out_coordinates, tries, calls, runs>>
    /\ UNCHANGED <<outVars, loadVars, fixVars, metVars>>

\* RateLimiter.__call__: self.func(location), the request goes out
\* IssueLookup that also sends the request when the request slot was not
\* waited for
IssueLookupNoSlot(profile) ==
    /\ pc \in {"slot", "geocode"}
    /\ Len(out_coordinates) < Len(location_list)
    /\ service[Current] \in {"unknown", profile}
    /\ service' = [service EXCEPT ![Current] = profile]
    /\ calls' = Append(calls, Current)
    /\ pc' = "inflight"
    /\ UNCHANGED <<heap, dm_dataframe, dataframe, location_list,
                   out_coordinates, tries, runs>>
    /\ UNCHANGED <<outVars, loadVars, fixVars, metVars>>

IssueLookup(profile) ==
    /\ pc = "slot"
    /\ service[Current] \in {"unknown", profile}
    /\ service' = [service EXCEPT ![Current] = profile]
    /\ calls' = Append(calls, Current)
    /\ pc' = "inflight"
    /\ UNCHANGED <<heap, dm_dataframe, dataframe, location_list,
                   out_coordinates, tries, runs>>
    /\ UNCHANGED <<outVars, loadVars, fixVars, metVars>>

\* the service answers: a Location or None (no match); line 145
LookupReturns ==
    /\ pc = "inflight"
    /\ ~Fails(Current, tries)
    /\ out_coordinates' = Append(out_coordinates, Answer(Current))
    /\ tries' = 0
    /\ pc' = "geocode"
    /\ UNCHANGED <<heap, dm_dataframe, service, dataframe, location_list,
                   calls, runs>>
    /\ UNCHANGED <<outVars, loadVars, fixVars, metVars>>

\* RateLimiter.__call__: a GeocoderServiceError before the last try is
\* swallowed and the call is repeated after error_wait_seconds
LookupRetried ==
    /\ pc = "inflight"
    /\ Fails(Current, tries)
    /\ tries < max_retries
    /\ tries' = tries + 1
    /\ pc' = "geocode"
    /\ UNCHANGED <<heap, dm_dataframe, service, dataframe, location_list,
                   out_coordinates, calls, runs>>
    /\ UNCHANGED <<outVars, loadVars, fixVars, metVars>>

\* LookupGivenUp with the error of the last try raised to the caller
LookupGivenUpRaises ==
    /\ pc = "inflight"
    /\ Fails(Current, tries)
    /\ tries >= max_retries
    /\ ret' = Raised("GeocoderServiceError")
    /\ runs' = [runs EXCEPT ![Len(runs)] =
                  [@ EXCEPT !.keys = location_list, !.calls = calls,
                            !.outcome = Raised("GeocoderServiceError")]]
    /\ tries' = 0
    /\ pc' = "idle"
    /\ UNCHANGED <<heap, dm_dataframe, service, dataframe, location_list,
                   out_coordinates, calls, printed>>
    /\ UNCHANGED <<loadVars, fixVars, metVars>>

\* RateLimiter.__call__: the last try failed; swallow_exceptions=True returns
\* return_value_on_exception (None)
LookupGivenUp ==
    /\ pc = "inflight"
    /\ Fails(Current, tries)
    /\ tries >= max_retries
    /\ out_coordinates' = Append(out_coordinates, NoLocation)
    /\ tries' = 0
    /\ pc' = "geocode"
    /\ UNCHANGED <<heap, dm_dataframe, service, dataframe, location_list,
                   calls, runs>>
    /\ UNCHANGED <<outVars, loadVars, fixVars, metVars>>

FinishRun(outcome) ==
    [runs EXCEPT ![Len(runs)] =
        [@ EXCEPT !.keys = location_list, !.calls = calls, !.outcome = outcome]]

\* lines 147-165: the coordinates are joined onto the rows; the result of
\* merge is a new object
JoinAndReturn ==
    /\ pc = "geocode"
    /\ Len(out_coordinates) = Len(location_list)
    /\ Len(location_list) > 0
    /\ LET location_df == LocationDf(location_list, out_coordinates)
           merged == Merge(heap[dataframe], location_df, "geolocalizacion", "location")
           new == Len(heap) + 1
       IN /\ heap' = Append(heap, merged)
          /\ dm_dataframe' = IF new = dm_dataframe THEN new ELSE dm_dataframe
          /\ ret' = Returned(new)
          /\ runs' = FinishRun(Returned(new))
    /\ pc' = "idle"
    /\ printed' = <<>>
    /\ UNCHANGED <<service, dataframe, location_list, out_coordinates, tries, calls>>
    /\ UNCHANGED <<loadVars, fixVars, metVars>>

\* line 160 on a table without rows: location_df has no 'location' column
\* and merge raises KeyError
JoinRaises ==
    /\ pc = "geocode"
    /\ Len(out_coordinates) = Len(location_list)
    /\ Len(location_list) = 0
    /\ ret' = Raised("KeyError")
    /\ runs' = FinishRun(Raised("KeyError"))
    /\ pc' = "idle"
    /\ printed' = <<>>
    /\ UNCHANGED <<heap, dm_dataframe, service, dataframe, location_list,
                   out_coordinates, tries, calls>>
    /\ UNCHANGED <<loadVars, fixVars, metVars>>

InitGeo ==
    /\ heap \in {<<t>> : t \in InputTables}
    /\ dm_dataframe = NoObj
    /\ service = [q \in Queries |-> "unknown"]
    /\ pc = "idle"
    /\ dataframe = NoObj
    /\ location_list = <<>>
    /\ out_coordinates = <<>>
    /\ tries = 0
    /\ calls = <<>>
    /\ runs = <<>>
    /\ ret = NoCall
    /\ printed = <<>>

NextGeo ==
    \/ \E obj \in DOMAIN heap : AssignDataframe(obj)
    \/ \E arg \in {NoObj} \cup DOMAIN heap : GeocodeNoTable(arg)
    \/ \E arg \in {NoObj} \cup DOMAIN heap : GeocodeMissingColumns(arg)
    \/ \E arg \in {NoObj} \cup DOMAIN heap : GeocodeStart(arg)
    \/ AcquireSlot
    \/ \E profile \in Profiles : IssueLookup(profile)
    \/ LookupReturns
    \/ LookupRetried
    \/ LookupGivenUp
    \/ JoinAndReturn
    \/ JoinRaises

-----------------------------------------------------------------------------
(* DataGovAPI: load_data and get_dataframe.                                *)

\* The bodies an endpoint may send: JSON arrays of objects, or text that is
\* not JSON.
JsonBodies ==
    { [json |-> TRUE, items |-> <<>>],
      [json |-> TRUE, items |-> <<[municipio |-> Str(<<"CALI">>)]>>],
      [json |-> TRUE, items |-> <<[municipio |-> Str(<<"Buga">>), t |-> Num(10)],
                                  [municipio |-> Str(<<"Cali">>)]>>] }
Malformed == [json |-> FALSE, items |-> <<>>]

\* What requests.get meets: no connection, an HTTP error status, or a 200
\* with a body.
Responses ==
    { [transport |-> "ConnectionError", status |-> 0, body |-> Malformed],
      [transport |-> "ok", status |-> 404, body |-> Malformed] }
    \cup {[transport |-> "ok", status |-> 200, body |-> b] :
              b \in JsonBodies \cup {Malformed}}

FieldOrder == <<"municipio", "t">>
Select(s, keep) ==
    LET F[i \in 0..Len(s)] ==
          IF i = 0 THEN <<>>
          ELSE IF s[i] \in keep THEN Append(F[i - 1], s[i]) ELSE F[i - 1]
    IN F[Len(s)]

\* pd.read_json of an array of objects: a column per field name, a row per
\* object, a missing field is null
ReadJson(body) ==
    LET fields == UNION {DOMAIN body.items[i] : i \in DOMAIN body.items}
    IN [cols |-> Select(FieldOrder, fields),
        rows |-> [i \in DOMAIN body.items |->
                    [c \in fields |->
                        IF c \in DOMAIN body.items[i] THEN body.items[i][c] ELSE None]]]

\* lines 34-38: which responses make the try block raise
LoadRaises(resp) ==
    \/ resp.transport # "ok"        \* requests.get raises
    \/ resp.status >= 400           \* raise_for_status raises HTTPError
    \/ ~resp.body.json              \* pd.read_json raises ValueError

\* load_data when the except branch assigns None
LoadDataFailsClearing(resp) ==
    /\ Len(loads) < MaxLoads
    /\ LoadRaises(resp)
    /\ requests' = requests + 1
    /\ api_dataframe' = NoTable
    /\ loads' = Append(loads, [resp |-> resp, ok |-> FALSE])
    /\ printed' = <<"Error loading data: ">>
    /\ ret' = Returned(NoObj)
    /\ UNCHANGED <<geoVars, fixVars, metVars>>

\* load_data, lines 33-42, a response that raises inside the try block:
\* the exception is caught and printed, nothing is assigned
LoadDataFails(resp) ==
    /\ Len(loads) < MaxLoads
    /\ LoadRaises(resp)
    /\ requests' = requests + 1
    /\ api_dataframe' = api_dataframe
    /\ loads' = Append(loads, [resp |-> resp, ok |-> FALSE])
    /\ printed' = <<"Error loading data: ">>
    /\ ret' = Returned(NoObj)
    /\ UNCHANGED <<geoVars, fixVars, metVars>>

\* load_data, lines 33-42, a 200 response with a JSON body
LoadDataSucceeds(resp) ==
    /\ Len(loads) < MaxLoads
    /\ ~LoadRaises(resp)
    /\ requests' = requests + 1
    /\ api_dataframe' = ReadJson(resp.body)
    /\ loads' = Append(loads, [resp |-> resp, ok |-> TRUE])
    /\ printed' = <<"Data loaded successfully.">>
    /\ ret' = Returned(NoObj)
    /\ UNCHANGED <<geoVars, fixVars, metVars>>

\* DataGovAPI.get_dataframe, line 52
ApiGetDataframe == api_dataframe

InitLoad ==
    /\ api_dataframe = NoTable
    /\ requests = 0
    /\ loads = <<>>
    /\ ret = NoCall
    /\ printed = <<>>

IdleGeo ==
    /\ heap = <<>> /\ dm_dataframe = NoObj /\ service = <<>> /\ pc = "idle"
    /\ dataframe = NoObj /\ location_list = <<>> /\ out_coordinates = <<>>
    /\ tries = 0 /\ calls = <<>> /\ runs = <<>>

NextLoad ==
    \/ \E resp \in Responses : LoadDataFails(resp)
    \/ \E resp \in Responses : LoadDataSucceeds(resp)

-----------------------------------------------------------------------------
(* DataManager.fix_string_case.  Text is a sequence of characters.         *)

\* A with acute accent (U+00C1); sharp s (U+00DF)
Alphabet == {"A_acute", "eszett"}

\* unidecode: the ASCII transliteration of one character
UnidecodeChar(c) ==
    IF c = "A_acute" THEN <<"A">>
    ELSE IF c = "a_acute" THEN <<"a">>
    ELSE IF c = "eszett" THEN <<"s", "s">>
    ELSE <<c>>

RECURSIVE Unidecode(_)
Unidecode(s) == IF s = <<>> THEN <<>> ELSE UnidecodeChar(Head(s)) \o Unidecode(Tail(s))

LowerChar(c) == IF c = "A" THEN "a" ELSE IF c = "S" THEN "s"
                ELSE IF c = "A_acute" THEN "a_acute" ELSE c
\* str.lower
Lower(s) == [i \in DOMAIN s |-> LowerChar(s[i])]

UpperChar(c) == IF c = "a" THEN <<"A">> ELSE IF c = "s" THEN <<"S">>
                ELSE IF c = "a_acute" THEN <<"A_acute">>
                ELSE IF c = "eszett" THEN <<"S", "s">> ELSE <<c>>
\* str.capitalize: the first character upper-cased, the others lower-cased
Capitalize(s) == IF s = <<>> THEN <<>> ELSE UpperChar(Head(s)) \o Lower(Tail(s))

\* lines 86-99
remove_accents(text) == IF IsStr(text) THEN Str(Unidecode(text.s)) ELSE text

\* Series.str.lower / Series.str.capitalize on an object column: an element
\* that is not a str gives NaN
StrLower(v)      == IF IsStr(v) THEN Str(Lower(v.s)) ELSE None
StrCapitalize(v) == IF IsStr(v) THEN Str(Capitalize(v.s)) ELSE None

\* the dtype pandas gives a column: object when it holds a str (or nothing
\* but None), a number dtype when it holds numbers (NaN for the nulls)
IsObjectColumn(values) ==
    \/ \E i \in DOMAIN values : IsStr(values[i])
    \/ \A i \in DOMAIN values : IsNull(values[i])

\* lines 106-110 without the capitalize step
FixColumnNoCapitalize(values) ==
    [i \in DOMAIN values |-> StrLower(remove_accents(values[i]))]

\* lines 106-110 on one column
FixColumn(values) ==
    [i \in DOMAIN values |-> StrCapitalize(StrLower(remove_accents(values[i])))]

RECURSIVE FixFrom(_, _)
\* lines 102-110: the loop over the columns, from column k on
FixFrom(t, k) ==
    IF k > Len(t.cols) THEN t
    ELSE FixFrom(IF IsObjectColumn(Column(t, t.cols[k]))
                 THEN SetColumn(t, t.cols[k], FixColumn(Column(t, t.cols[k])))
                 ELSE t,
                 k + 1)

Texts == UNION {[1..k -> Alphabet] : k \in 0..MaxLen}
CultivoCells == {Str(x) : x \in Texts} \cup {None, Num(7)}
AreaCells == {Num(7)}

FixTables ==
    {[cols |-> <<"cultivo">>, rows |-> r] :
        r \in SeqsUpTo({[c \in {"cultivo"} |-> v] : v \in CultivoCells}, MaxFixRows)}
    \cup
    {[cols |-> <<"cultivo", "area">>, rows |-> r] :
        r \in SeqsUpTo({[c \in {"cultivo", "area"} |->
                           IF c = "cultivo" THEN v ELSE w] :
                               v \in CultivoCells, w \in AreaCells}, MaxFixRows)}

\* fix_string_case(dataframe), lines 76-112
FixStringCase ==
    /\ fix_out = NoTable
    /\ fix_out' = FixFrom(fix_in, 1)
    /\ ret' = Returned(NoObj)
    /\ UNCHANGED <<fix_in, printed>>
    /\ UNCHANGED <<geoVars, loadVars, metVars>>

InitFix ==
    /\ fix_in \in FixTables
    /\ fix_out = NoTable
    /\ ret = NoCall
    /\ printed = <<>>

NextFix == FixStringCase

-----------------------------------------------------------------------------
(* MetricsComputation.grouped_table, called as                             *)
(*   grouped_table(["anio"], {"total": ("valor", f)}, sort_by_column, n)   *)

Years  == {Num(2020), Num(2021), Num(2022), None}
Valores == {Num(1), Num(2)}

MetTables ==
    {[cols |-> <<"anio", "valor">>, rows |-> r] :
        r \in SeqsUpTo({[c \in {"anio", "valor"} |-> IF c = "anio" THEN y ELSE v] :
                            y \in Years, v \in Valores}, MaxMetRows)}

AggFunctions == {"sum", "count", "max"}

RECURSIVE SumOf(_)
SumOf(s) == IF s = <<>> THEN 0 ELSE Head(s) + SumOf(Tail(s))
RECURSIVE MaxOf(_)
MaxOf(s) == IF Len(s) = 1 THEN s[1]
            ELSE IF Head(s) >= MaxOf(Tail(s)) THEN Head(s) ELSE MaxOf(Tail(s))

\* the values of column c in the rows of t whose key column holds key
GroupValues(t, by, key, c) ==
    LET F[i \in 0..Len(t.rows)] ==
          IF i = 0 THEN <<>>
          ELSE IF t.rows[i][by] = key THEN Append(F[i - 1], t.rows[i][c].n)
          ELSE F[i - 1]
    IN F[Len(t.rows)]

Aggregate(f, values) ==
    IF f = "sum" THEN SumOf(values)
    ELSE IF f = "count" THEN Len(values)
    ELSE MaxOf(values)

\* the keys in ascending order (groupby sorts the group keys)
RECURSIVE Ascending(_)
Ascending(S) ==
    IF S = {} THEN <<>>
    ELSE LET least == CHOOSE x \in S : \A y \in S : x.n <= y.n
         IN <<least>> \o Ascending(S \ {least})

\* lines 110-116: groupby(by).agg(out=(c, f)).reset_index(), a row per key,
\* rows with a null key left out
GroupBy(t, by, out, c, f) ==
    LET keys == Ascending({t.rows[i][by] : i \in DOMAIN t.rows} \ {None})
    IN [cols |-> <<by, out>>,
        rows |-> [g \in DOMAIN keys |->
                    [k \in {by, out} |->
                        IF k = by THEN keys[g]
                        ELSE Num(Aggregate(f, GroupValues(t, by, keys[g], c)))]]]

Orderings(n) == {p \in [1..n -> 1..n] : \A i, j \in 1..n : p[i] = p[j] => i = j}

\* sort_values in ascending order
SortValuesAscending(rows, by) ==
    {[i \in DOMAIN rows |-> rows[p[i]]] : p \in
        {q \in Orderings(Len(rows)) :
            \A i \in 1..(Len(rows) - 1) : rows[q[i]][by].n <= rows[q[i + 1]][by].n}}

\* line 119: sort_values(by, ascending=False); the order among rows with
\* equal values is not defined, every order the sort may leave is kept
SortValues(rows, by) ==
    {[i \in DOMAIN rows |-> rows[p[i]]] : p \in
        {q \in Orderings(Len(rows)) :
            \A i \in 1..(Len(rows) - 1) : rows[q[i]][by].n >= rows[q[i + 1]][by].n}}

\* DataFrame.head(n): the first n rows; for a negative n, all rows but the
\* last -n
HeadRows(rows, n) ==
    IF n >= 0 THEN SubSeq(rows, 1, IF n < Len(rows) THEN n ELSE Len(rows))
    ELSE SubSeq(rows, 1, IF Len(rows) + n > 0 THEN Len(rows) + n ELSE 0)

\* grouped_table, lines 104-124
GroupedTable(f, sort_by_column, top_n) ==
    LET grouped_data == GroupBy(data, "anio", "total", "valor", f)
    IN /\ met_call = <<>>
       /\ \E sorted \in SortValues(grouped_data.rows, sort_by_column) :
            top_records' = [cols |-> grouped_data.cols,
                            rows |-> HeadRows(sorted, top_n)]
       /\ met_call' = <<[f |-> f, sort_by_column |-> sort_by_column, top_n |-> top_n]>>
       /\ ret' = Returned(NoObj)
       /\ UNCHANGED <<data, printed>>
       /\ UNCHANGED <<geoVars, loadVars, fixVars>>

InitMet ==
    /\ data \in MetTables
    /\ top_records = NoTable
    /\ met_call = <<>>
    /\ ret = NoCall
    /\ printed = <<>>

NextMet ==
    \E f \in AggFunctions, by \in {"anio", "total"}, n \in 0..MaxTop :
        GroupedTable(f, by, n)

-----------------------------------------------------------------------------
IdleLoad == api_dataframe = NoTable /\ requests = 0 /\ loads = <<>>
IdleFix  == fix_in = NoTable /\ fix_out = NoTable
IdleMet  == data = NoTable /\ top_records = NoTable /\ met_call = <<>>

GeoStart  == InitGeo /\ IdleLoad /\ IdleFix /\ IdleMet
LoadStart == InitLoad /\ IdleGeo /\ IdleFix /\ IdleMet
FixStart  == InitFix /\ IdleGeo /\ IdleLoad /\ IdleMet
MetStart  == InitMet /\ IdleGeo /\ IdleLoad /\ IdleFix

SpecGeo == GeoStart /\ [][NextGeo]_vars

SpecFix == FixStart /\ [][NextFix]_vars

SpecMet == MetStart /\ [][NextMet]_vars

SpecLoad == LoadStart /\ [][NextLoad]_vars

-----------------------------------------------------------------------------
(* Properties of geocode_dataframe, stated over the completed runs.        *)

Completed(r) == r.outcome.kind # "none"
Enriching(r) == r.input # NoObj /\ HasRequiredColumns(r.before)
DistinctKeys(r) == {LocationKey(row) : row \in Range(r.before.rows)}
Times(q, sent) == Cardinality({i \in DOMAIN sent : sent[i] = q})
Output(r) == heap[r.outcome.obj]

\* the name under which the run's merge attached a column of location_df
Attached(r, c) == IF HasColumn(r.before, c) THEN SuffixY(c) ELSE c

\* row i of the output carries the cells of row i of the input, column by
\* column
SameRows(r) ==
    /\ Len(Output(r).rows) = Len(r.before.rows)
    /\ \A i \in DOMAIN r.before.rows : \A k \in DOMAIN r.before.cols :
          Output(r).rows[i][Output(r).cols[k]] = r.before.rows[i][r.before.cols[k]]

\* C1 (as claimed): every run on a table that has both the municipio and the
\* departamento column returns a table with the rows of the input, each
\* exactly once and in the original order.
C1_RowsPreserved ==
    \A j \in DOMAIN runs :
        (Completed(runs[j]) /\ Enriching(runs[j]))
            => (runs[j].outcome.kind = "return" /\ SameRows(runs[j]))

\* C2 (as claimed): in a run on a table with the required columns the number
\* of requests sent to the geocoding service equals the number of distinct
\* Location Keys, also when a lookup fails with a service error.
C2_OneRequestPerKey ==
    \A j \in DOMAIN runs :
        (Completed(runs[j]) /\ Enriching(runs[j]))
            => Len(runs[j].calls) = Cardinality(DistinctKeys(runs[j]))

\* C2 (amended): the rate-limited lookup is invoked once per distinct
\* Location Key (not once per row); an invocation sends one request when the
\* service answers (match or no match) and repeats the request after every
\* service error, up to max_retries more times, so a key is requested at
\* least once and at most 1 + max_retries times, exactly 1 + max_retries
\* times when all its requests fail; no other query is sent.
C2_OneInvocationPerKey ==
    \A j \in DOMAIN runs :
        (Completed(runs[j]) /\ Enriching(runs[j]))
            => /\ Len(runs[j].keys) = Cardinality(DistinctKeys(runs[j]))
               /\ Range(runs[j].keys) = DistinctKeys(runs[j])
               /\ Range(runs[j].calls) = DistinctKeys(runs[j])
               /\ \A q \in DistinctKeys(runs[j]) :
                     /\ Times(q, runs[j].calls) >= 1
                     /\ Times(q, runs[j].calls) <= 1 + max_retries
                     /\ service[q] \in {"hit", "miss"} => Times(q, runs[j].calls) = 1
                     /\ service[q] = "down" => Times(q, runs[j].calls) = 1 + max_retries

\* C2 witness: a finished run over two rows sharing one key whose requests
\* all failed
C2_Witness ==
    \E j \in DOMAIN runs :
        /\ Completed(runs[j]) /\ Enriching(runs[j])
        /\ Len(runs[j].before.rows) >= 2
        /\ Cardinality(DistinctKeys(runs[j])) = 1
        /\ \E q \in DistinctKeys(runs[j]) : service[q] = "down"
        /\ Len(runs[j].calls) = 1 + max_retries

Unresolved(q) == service[q] \in {"miss", "down"}

\* C3: a run in which the lookup of some key failed or found nothing still
\* looks up every key, returns a table and raises nothing; the rows of the
\* failed or unmatched keys, and only those, have null latitude and
\* longitude, the other rows have the coordinates of their key.
C3_FailureIsPerKey ==
    \A j \in DOMAIN runs :
        (/\ Completed(runs[j]) /\ Enriching(runs[j])
         /\ \E q \in DistinctKeys(runs[j]) : Unresolved(q))
            => /\ runs[j].outcome.kind = "return"
               /\ Range(runs[j].calls) = DistinctKeys(runs[j])
               /\ Len(Output(runs[j]).rows) = Len(runs[j].before.rows)
               /\ \A i \in DOMAIN runs[j].before.rows :
                     LET q   == LocationKey(runs[j].before.rows[i])
                         row == Output(runs[j]).rows[i]
                         lat == row[Attached(runs[j], "latitude")]
                         lon == row[Attached(runs[j], "longitude")]
                     IN IF Unresolved(q)
                        THEN IsNull(lat) /\ IsNull(lon)
                        ELSE /\ lat = Location(q).latitude
                             /\ lon = Location(q).longitude

\* C3 witness: a finished run in which one key failed at every request and
\* a key looked up after it was resolved
C3_Witness ==
    \E j \in DOMAIN runs :
        /\ Completed(runs[j]) /\ Enriching(runs[j])
        /\ Len(runs[j].keys) = 2
        /\ service[runs[j].keys[1]] = "down"
        /\ service[runs[j].keys[2]] = "hit"
        /\ runs[j].outcome.kind = "return"

\* C4: a run on a table that lacks municipio or departamento sends no
\* request, returns the very object it was given, with the columns and rows
\* it had, prints the notice and raises nothing.
C4_MissingColumnsNoOp ==
    /\ \A j \in DOMAIN runs :
          (runs[j].input # NoObj /\ ~HasRequiredColumns(runs[j].before))
              => /\ runs[j].outcome = Returned(runs[j].input)
                 /\ runs[j].calls = <<>>
                 /\ heap[runs[j].input] = runs[j].before
    /\ (/\ pc = "idle" /\ ret.kind # "none"
        /\ runs[Len(runs)].input # NoObj
        /\ ~HasRequiredColumns(runs[Len(runs)].before))
          => /\ ret = Returned(runs[Len(runs)].input)
             /\ printed = <<MissingColumnsNotice>>

\* C4 witness: a finished run on the managed table, which has rows and no
\* departamento column
C4_Witness ==
    /\ pc = "idle" /\ ret.kind = "return"
    /\ Len(runs) = 1
    /\ runs[1].arg = NoObj /\ runs[1].input # NoObj
    /\ ~HasColumn(runs[1].before, "departamento")
    /\ Len(runs[1].before.rows) > 1

\* C9: when a run is given the table an earlier run returned, it looks up
\* the same keys in the same order with the same requests, and attaches to
\* every row the latitude and longitude the earlier run attached to it.
C9_RerunSameCoordinates ==
    \A j \in DOMAIN runs : \A k \in DOMAIN runs :
        (/\ j < k
         /\ Completed(runs[j]) /\ Enriching(runs[j])
         /\ runs[j].outcome.kind = "return"
         /\ Completed(runs[k])
         /\ runs[k].input = runs[j].outcome.obj)
            => /\ runs[k].outcome.kind = "return"
               /\ runs[k].keys = runs[j].keys
               /\ runs[k].calls = runs[j].calls
               /\ Len(Output(runs[k]).rows) = Len(Output(runs[j]).rows)
               /\ \A i \in DOMAIN Output(runs[j]).rows :
                     /\ Output(runs[k]).rows[i][Attached(runs[k], "latitude")]
                          = Output(runs[j]).rows[i][Attached(runs[j], "latitude")]
                     /\ Output(runs[k]).rows[i][Attached(runs[k], "longitude")]
                          = Output(runs[j]).rows[i][Attached(runs[j], "longitude")]

\* C9 witness: a second run on the output of the first, over two keys of
\* which one is resolved and one is not
C9_Witness ==
    /\ Len(runs) = 2
    /\ Completed(runs[1]) /\ Completed(runs[2])
    /\ runs[1].outcome.kind = "return"
    /\ runs[2].input = runs[1].outcome.obj
    /\ runs[2].outcome.kind = "return"
    /\ Len(runs[2].keys) = 2
    /\ service[runs[2].keys[1]] = "hit"
    /\ service[runs[2].keys[2]] = "flaky"
    /\ Len(runs[2].before.rows) = 2

\* C10 (as claimed): after a run on the managed table (no argument, or the
\* managed table as argument) has returned the enriched table,
\* DataManager.get_dataframe returns that table, with its latitude and
\* longitude columns.
C10_ManagedTableUpdated ==
    (/\ pc = "idle" /\ ret.kind = "return"
     /\ Enriching(runs[Len(runs)])
     /\ runs[Len(runs)].input = runs[Len(runs)].managed)
        => /\ dm_dataframe = ret.obj
           /\ HasColumn(heap[dm_dataframe], Attached(runs[Len(runs)], "latitude"))
           /\ HasColumn(heap[dm_dataframe], Attached(runs[Len(runs)], "longitude"))

-----------------------------------------------------------------------------
(* Properties of DataGovAPI.load_data.                                     *)

RECURSIVE LastLoaded(_)
\* the table of the most recent successful load among the first n
LastLoaded(n) ==
    IF n = 0 THEN NoTable
    ELSE IF loads[n].ok THEN ReadJson(loads[n].resp.body)
    ELSE LastLoaded(n - 1)

\* C7 (as claimed): when the most recent load_data failed, it raised
\* nothing, get_dataframe returns no table (also after an earlier successful
\* load) and the request was not retried.
C7_FailedLoadLeavesNoTable ==
    (Len(loads) > 0 /\ ~loads[Len(loads)].ok)
        => /\ ret.kind = "return"
           /\ ApiGetDataframe = NoTable
           /\ requests = Len(loads)

\* C7 (amended): when the most recent load_data failed, it raised nothing
\* and produced no new table: the table of the instance is left as it was,
\* so get_dataframe returns None when no load has succeeded and the table of
\* the most recent successful load otherwise; the request was not retried.
C7_FailedLoadKeepsTable ==
    (Len(loads) > 0 /\ ~loads[Len(loads)].ok)
        => /\ ret.kind = "return"
           /\ ApiGetDataframe = LastLoaded(Len(loads))
           /\ requests = Len(loads)

\* C7 witness: a parse failure after a successful load of a table with rows
C7_Witness ==
    /\ Len(loads) = 2
    /\ loads[1].ok /\ Len(ReadJson(loads[1].resp.body).rows) = 2
    /\ ~loads[2].ok /\ loads[2].resp.status = 200
    /\ ApiGetDataframe # NoTable

-----------------------------------------------------------------------------
(* Properties of DataManager.fix_string_case.                              *)

Fixed == fix_out # NoTable

\* C5 (as claimed): every value of the input that is not text (a number, a
\* null), also one in a column that holds text too, is the same in the
\* output.
C5_NonTextUnchanged ==
    Fixed => \A i \in DOMAIN fix_in.rows : \A c \in Range(fix_in.cols) :
                 ~IsStr(fix_in.rows[i][c]) => fix_out.rows[i][c] = fix_in.rows[i][c]

Ascii == {"a", "A", "s", "S"}
LowerCase == {"a", "s"}
UpperCase == {"A", "S"}

\* C6: the output has the columns and the number of rows of the input, and
\* every text value v of the input is capitalize(lower(strip_accents(v))) in
\* the output: no accented character, the first character not lower-case,
\* the others not upper-case.
C6_TextNormalized ==
    Fixed =>
        /\ fix_out.cols = fix_in.cols
        /\ Len(fix_out.rows) = Len(fix_in.rows)
        /\ \A i \in DOMAIN fix_in.rows :
              /\ DOMAIN fix_out.rows[i] = DOMAIN fix_in.rows[i]
              /\ \A c \in Range(fix_in.cols) :
                    IsStr(fix_in.rows[i][c]) =>
                        LET v == fix_in.rows[i][c].s
                            w == fix_out.rows[i][c]
                        IN /\ IsStr(w)
                           /\ w.s = Capitalize(Lower(Unidecode(v)))
                           /\ Range(w.s) \subseteq Ascii
                           /\ w.s # <<>> => w.s[1] \notin LowerCase
                           /\ \A k \in 2..Len(w.s) : w.s[k] \notin UpperCase
                           /\ (v = <<>>) = (w.s = <<>>)

\* C6 witness: a two-column table whose text column holds an accented
\* upper-case text, which came out transliterated and capitalized
C6_Witness ==
    /\ Fixed
    /\ Len(fix_in.cols) = 2
    /\ Len(fix_in.rows) = 2
    /\ fix_in.rows[1]["cultivo"] = Str(<<"A_acute", "A_acute">>)
    /\ fix_out.rows[1]["cultivo"] = Str(<<"A", "a">>)
    /\ fix_in.rows[2]["cultivo"] = Str(<<"eszett">>)

-----------------------------------------------------------------------------
(* Properties of MetricsComputation.grouped_table.                         *)

\* what the call computes for one year, from the rows of the data
TotalOf(y, f) ==
    LET rows == {i \in DOMAIN data.rows : data.rows[i]["anio"] = y}
    IN IF f = "count" THEN Cardinality(rows)
       ELSE IF f = "max"
       THEN CHOOSE m \in {data.rows[i]["valor"].n : i \in rows} :
                \A i \in rows : data.rows[i]["valor"].n <= m
       ELSE LET S[R \in SUBSET rows] ==
                  IF R = {} THEN 0
                  ELSE LET i == CHOOSE i \in R : TRUE
                       IN data.rows[i]["valor"].n + S[R \ {i}]
            IN S[rows]

GroupKeys == {data.rows[i]["anio"] : i \in DOMAIN data.rows} \ {None}

SortValue(y, call) == IF call.sort_by_column = "anio" THEN y.n ELSE TotalOf(y, call.f)

-----------------------------------------------------------------------------
(* The order of the steps inside one run of geocode_dataframe.             *)

InRun == pc # "idle"
ThisRun == runs[Len(runs)]

\* the row in which key q appears first in the table given to run r
FirstRow(r, q) ==
    CHOOSE i \in DOMAIN r.before.rows :
        /\ LocationKey(r.before.rows[i]) = q
        /\ \A k \in 1..(i - 1) : LocationKey(r.before.rows[k]) # q

\* the requests `sent` of run r follow the first appearance of their keys in
\* the rows: no key is requested before a key that appears earlier, and no
\* key that appears earlier than a requested one is skipped
FirstSeenOrder(r, sent) ==
    /\ Range(sent) \subseteq DistinctKeys(r)
    /\ \A i \in DOMAIN sent : \A j \in DOMAIN sent :
          i < j => FirstRow(r, sent[i]) <= FirstRow(r, sent[j])
    /\ \A i \in DOMAIN sent : \A q \in DistinctKeys(r) :
          FirstRow(r, q) < FirstRow(r, sent[i]) => \E k \in 1..(i - 1) : sent[k] = q

\* requests sent and not yet answered: those sent for the key the loop is
\* at, less the ones that came back as errors
InFlight ==
    IF ~InRun \/ Len(out_coordinates) >= Len(location_list) THEN 0
    ELSE Times(Current, calls) - tries

\* the keys whose lookup has returned (with a Location or with None)
Answered == {location_list[i] : i \in 1..Len(out_coordinates)}

OneAtATime ==
    /\ InFlight \in {0, 1}
    /\ (InFlight = 1) = (pc = "inflight")
    /\ InRun => /\ FirstSeenOrder(ThisRun, calls)
                /\ Answered \subseteq Range(calls)
                /\ \A q \in Range(calls) \ Answered : q = Current

\* a step that sends a request starts with the request slot acquired and
\* with no request in flight
ThroughRateLimiter ==
    calls' # calls /\ calls' # <<>>
        => /\ pc = "slot"
           /\ InFlight = 0
           /\ Len(calls') = Len(calls) + 1

\* a step that joins (merge creates the result table, or raises) starts with
\* every distinct key answered and no request in flight
JoinAfterLastLookup ==
    (InRun /\ pc' = "idle")
        => /\ pc = "geocode"
           /\ InFlight = 0
           /\ Answered = DistinctKeys(ThisRun)
           /\ Range(calls) = DistinctKeys(ThisRun)

\* C11: during a run of geocode_dataframe at most one lookup is in flight
\* at any time, every request is sent only after the rate limiter's request
\* slot was acquired, the distinct keys are looked up in the order of their
\* first appearance in the rows, and the join starts only after the lookup
\* of the last distinct key has returned.
C11_LookupsSerialized ==
    /\ []OneAtATime
    /\ [][ThroughRateLimiter /\ JoinAfterLastLookup]_vars

\* C11 witness: a finished run over two distinct keys, the first of which
\* failed once and was requested again before the second was looked up
C11_Witness ==
    /\ Len(runs) = 1
    /\ pc = "idle"
    /\ runs[1].outcome.kind = "return"
    /\ Enriching(runs[1])
    /\ Len(runs[1].before.rows) = 2
    /\ runs[1].keys = <<LocationKey(runs[1].before.rows[1]),
                        LocationKey(runs[1].before.rows[2])>>
    /\ runs[1].calls = <<runs[1].keys[1], runs[1].keys[1], runs[1].keys[2]>>

====
